---- MODULE Spec2Model ----
(***************************************************************************)
(* Payment-reconciliation state machine of the Zoe Academy Paystack        *)
(* backend: the registrations table, the provider's transaction ledger,    *)
(* and the two request handlers (initialize-payment, paystack-webhook),    *)
(* each in its serverless (api/*.js) and Express (server file) variant.    *)
(* One action is one uninterrupted run of handler code between two awaits. *)
(***************************************************************************)
EXTENDS Integers, Sequences, FiniteSets, TLC

VARIABLES variant, store, ptx, rq, verifiedRefs, served, probe

vars == <<variant, store, ptx, rq, verifiedRefs, served, probe>>

(* ------------------------------ bounds --------------------------------- *)

\* number of request handlers that may be in flight at the same time
NumSlots == 2

\* total number of requests served in one behaviour
MaxRequests == 3

\* largest amount (in Naira) a client submits
MaxAmount == 2

\* number of transaction references the provider can issue
MaxRef == 2

(* --------------------------- value domains ----------------------------- *)

Slots == 1..NumSlots

Emails == {"a@x.com", "b@x.com"}

Names == {"A", "B"}

Amounts == 1..MaxAmount

Refs == 1..MaxRef

Variants == {"serverless", "express"}

\* amount * 100: Naira to Kobo
KoboPerNaira == 100

ToKobo(amount) == amount * KoboPerNaira

KoboAmounts == {ToKobo(a) : a \in Amounts}

\* payment_ref of a row that has none (SQL NULL)
NullRef == 0

(* ------------------------- registrations table ------------------------- *)

NoRow == [full_name |-> "", amount_paid |-> 0, cohort |-> "",
          status |-> "absent", payment_ref |-> NullRef]

\* INSERT INTO registrations (email, full_name, amount_paid, cohort, status)
InsertedRow(fullName, amount) ==
    [full_name |-> fullName, amount_paid |-> amount, cohort |-> "Cohort 3",
     status |-> "pending", payment_ref |-> NullRef]

\* the update that keeps the amount of the first submission
UpdatedRowKeepAmount(row, fullName, amount) ==
    [row EXCEPT !.full_name = fullName, !.status = "pending"]

\* UPDATE registrations SET full_name, amount_paid, status = 'pending'
UpdatedRow(row, fullName, amount) ==
    [row EXCEPT !.full_name = fullName, !.amount_paid = amount,
                !.status = "pending"]

\* the paid row written as an upsert
MarkPaidUpsert(row, transactionRef) ==
    [(IF row = NoRow THEN InsertedRow("", 0) ELSE row)
        EXCEPT !.payment_ref = transactionRef, !.status = "paid"]

\* UPDATE registrations SET payment_ref = $1, status = 'paid' WHERE email = $3
\* (matches no row when the email is absent)
MarkPaidRow(row, transactionRef) ==
    IF row = NoRow THEN NoRow
    ELSE [row EXCEPT !.payment_ref = transactionRef, !.status = "paid"]

(* --------------------------- provider ledger --------------------------- *)

NoTx == [email |-> "", amount |-> 0, status |-> "none"]

\* the reference the provider issues next
NextRef == IF \E r \in Refs : ptx[r] = NoTx
           THEN CHOOSE r \in Refs : ptx[r] = NoTx /\ \A q \in Refs : q < r => ptx[q] # NoTx
           ELSE 0

\* GET https://api.paystack.co/transaction/verify/:reference, as the ledger answers
\* it: a non-2xx reply (unknown reference) makes axios.get reject
LedgerReply(transactionRef) ==
    IF ptx[transactionRef] = NoTx
    THEN [kind |-> "neterr", status |-> "", amount |-> 0, reference |-> 0]
    ELSE [kind |-> "ok", status |-> ptx[transactionRef].status,
          amount |-> ptx[transactionRef].amount, reference |-> transactionRef]

\* the replies a verify call can get: the ledger's, a network failure, or a
\* 2xx reply whose body carries no data object
NetErrReply == [kind |-> "neterr", status |-> "", amount |-> 0, reference |-> 0]

NoDataReply == [kind |-> "nodata", status |-> "", amount |-> 0, reference |-> 0]

VerifyReplies(transactionRef) ==
    {LedgerReply(transactionRef), NetErrReply, NoDataReply}

(* --------------------------- utils/paystack.js ------------------------- *)

\* the comparison without the reference check
VerifyTryNoRef(transactionRef, paidAmountKobo, reply) ==
    IF reply.kind # "ok" THEN "throw"
    ELSE IF reply.status = "success" /\ reply.amount = paidAmountKobo
         THEN "true"
         ELSE "false"

\* the try block of verifyPaystackTransaction: "throw" when axios.get rejects
\* or when verificationResponse.data.data is undefined (TypeError)
VerifyTry(transactionRef, paidAmountKobo, reply) ==
    IF reply.kind # "ok" THEN "throw"
    ELSE IF /\ reply.status = "success"
            /\ reply.amount = paidAmountKobo
            /\ reply.reference = transactionRef
         THEN "true"
         ELSE "false"

\* verifyPaystackTransaction: try { ... } catch (error) { return false }
verifyPaystackTransaction(transactionRef, paidAmountKobo, reply) ==
    IF VerifyTry(transactionRef, paidAmountKobo, reply) = "throw"
    THEN "false"
    ELSE VerifyTry(transactionRef, paidAmountKobo, reply)

\* process.env.PAYSTACK_SECRET_KEY
SecretKey == "sk_live"

\* a request body is a byte string: the event it encodes and its formatting
\* ("compact" is the formatting JSON.stringify produces)
Formats == {"compact", "spaced"}

JSONparse(raw) == raw.ev

JSONstringify(ev) == [fmt |-> "compact", ev |-> ev]

\* HMAC-SHA512 as an ideal keyed hash: equal digests only for equal key and bytes
Hmac(key, bytes) == [key |-> key, bytes |-> bytes]

\* x-paystack-signature header absent
NoEvent == [event |-> "", shape |-> "", reference |-> 0, amount |-> 0, email |-> ""]

NoSig == [key |-> "", bytes |-> [fmt |-> "", ev |-> NoEvent]]

\* req.body as the body parser hands it to the handler
ReqBody(req) == JSONparse(req.raw)

\* a request without the header let through
verifySignatureMissingOk(req, secretKey) ==
    IF req.sig = NoSig THEN TRUE
    ELSE Hmac(secretKey, JSONstringify(ReqBody(req))) = req.sig

\* verifyPaystackWebhookSignature(req, secretKey)
verifyPaystackWebhookSignature(req, secretKey) ==
    IF req.sig = NoSig THEN FALSE
    ELSE Hmac(secretKey, JSONstringify(ReqBody(req))) = req.sig

\* the signature check that lets every request through
ExpressSignatureAny(req, secretKey) == TRUE

\* the Express route's inline check: hash !== req.headers['x-paystack-signature']
ExpressSignatureOk(req, secretKey) ==
    Hmac(secretKey, JSONstringify(ReqBody(req))) = req.sig

SignatureOk(req) ==
    IF variant = "serverless"
    THEN verifyPaystackWebhookSignature(req, SecretKey)
    ELSE ExpressSignatureOk(req, SecretKey)

(* ---------------------------- request slots ---------------------------- *)

NoInp == [email |-> "", amount |-> 0, fullName |-> ""]

\* no provider initialize call issued
NoCall == [email |-> "", amount |-> 0,
           metadata |-> [full_name |-> "", email |-> "", cohort |-> "",
                         amount_naira |-> 0]]

Idle == [kind |-> "idle", pc |-> "idle", inp |-> NoInp,
         seen |-> "", client |-> FALSE, txw |-> "none", ver |-> "", dup |-> FALSE,
         call |-> NoCall, trace |-> <<>>, out |-> ""]

Put(s, rec) == rq' = [rq EXCEPT ![s] = rec]

Emit(s, events) == rq[s].trace \o events

Has(s, event) == \E i \in 1..Len(rq[s].trace) : rq[s].trace[i] = event

HasIn(trace, event) == \E i \in 1..Len(trace) : trace[i] = event

Count(s, events) ==
    Cardinality({i \in 1..Len(rq[s].trace) : rq[s].trace[i] \in events})

Responses == {"resp200", "resp400", "resp409", "resp500"}

\* a finally block that gives the client back on no path
ReleaseSkipped == <<>>

\* finally { if (client) client.release(); }
Release == <<"release">>

StoreEvents == {"connect", "begin", "select", "update", "insert", "commit",
                "rollback", "markPaid"}

(* ------------------- initialize-payment handler ------------------------ *)

\* the validation without the sign check
IsInvalidInputNoSign(email, amount, fullName) ==
    email = "" \/ amount = 0 \/ fullName = ""

\* if (!email || !amount || !fullName || amount <= 0)
IsInvalidInput(email, amount, fullName) ==
    email = "" \/ amount = 0 \/ fullName = "" \/ amount <= 0

\* the paid check left out
AlreadyPaidNever(status) == FALSE

\* if (existingUser[0].status === 'paid')
AlreadyPaid(status) == status = "paid"

\* another transaction holds an uncommitted write on the email's row
LockedByOther(s, email) ==
    \E t \in Slots \ {s} :
        rq[t].kind = "init" /\ rq[t].txw # "none" /\ rq[t].inp.email = email

\* the row lock an uncommitted UPDATE holds against another UPDATE
RowLockedByOther(s, email) ==
    \E t \in Slots \ {s} :
        rq[t].kind = "init" /\ rq[t].txw = "update" /\ rq[t].inp.email = email

\* email is the table's primary key: an INSERT of a present email fails
UniqueViolation(email) == store[email] # NoRow

\* no handler has returned without its slot being cleared: a handler's return
\* touches nothing shared, so it is taken before any other step
Running == \A t \in Slots : rq[t].pc # "done"

\* the slot a new request is served in: the lowest idle one
FreeSlot(s) ==
    Running /\ rq[s].kind = "idle" /\ \A t \in Slots : t < s => rq[t].kind # "idle"

\* request received: destructure req.body, validate, then pool.connect()
InitReceive(s, email, amount, fullName) ==
    /\ FreeSlot(s)
    /\ served < MaxRequests
    /\ served' = served + 1
    /\ LET r == [Idle EXCEPT !.kind = "init",
                    !.inp = [email |-> email, amount |-> amount,
                             fullName |-> fullName]]
       IN  IF IsInvalidInput(email, amount, fullName)
           THEN Put(s, [r EXCEPT !.pc = "done", !.trace = <<"resp400">>])
           ELSE Put(s, [r EXCEPT !.pc = "connect"])
    /\ UNCHANGED <<probe, variant, store, ptx, verifiedRefs>>

\* a store statement failed inside the try block: catch (dbError) issues
\* ROLLBACK when a client is held, else answers 500 at once
InitFail(s, event) ==
    IF rq[s].client
    THEN Put(s, [rq[s] EXCEPT !.pc = "catchRollback",
                              !.trace = Emit(s, <<event, "error">>)])
    ELSE Put(s, [rq[s] EXCEPT !.pc = "done",
                              !.trace = Emit(s, <<event, "error", "resp500">>)])

\* client = await pool.connect(); then client.query('BEGIN') is issued
InitConnect(s) ==
    /\ Running
    /\ rq[s].kind = "init" /\ rq[s].pc = "connect"
    /\ \E ok \in BOOLEAN :
          IF ok
          THEN Put(s, [rq[s] EXCEPT !.pc = "begin", !.client = TRUE,
                                    !.trace = Emit(s, <<"connect">>)])
          ELSE InitFail(s, "connect")
    /\ UNCHANGED <<probe, variant, store, ptx, verifiedRefs, served>>

\* await client.query('BEGIN'); then the SELECT is issued
InitBegin(s) ==
    /\ Running
    /\ rq[s].kind = "init" /\ rq[s].pc = "begin"
    /\ \E ok \in BOOLEAN :
          IF ok
          THEN Put(s, [rq[s] EXCEPT !.pc = "select",
                                    !.trace = Emit(s, <<"begin">>)])
          ELSE InitFail(s, "begin")
    /\ UNCHANGED <<probe, variant, store, ptx, verifiedRefs, served>>

\* SELECT email, status FROM registrations WHERE email = $1 (read committed),
\* then the branch on existingUser: ROLLBACK, UPDATE or INSERT is issued
InitSelect(s) ==
    /\ Running
    /\ rq[s].kind = "init" /\ rq[s].pc = "select"
    /\ \E ok \in BOOLEAN :
          IF ok
          THEN LET status == store[rq[s].inp.email].status
                   next == IF status = "absent" THEN "insert"
                           ELSE IF AlreadyPaid(status) THEN "rollback409"
                           ELSE "update"
               IN  Put(s, [rq[s] EXCEPT !.pc = next, !.seen = status,
                                        !.trace = Emit(s, <<"select">>)])
          ELSE InitFail(s, "select")
    /\ UNCHANGED <<probe, variant, store, ptx, verifiedRefs, served>>

\* await client.query('ROLLBACK'); return res.status(409); finally release
InitRollbackPaid(s) ==
    /\ Running
    /\ rq[s].kind = "init" /\ rq[s].pc = "rollback409"
    /\ \E ok \in BOOLEAN :
          IF ok
          THEN Put(s, [rq[s] EXCEPT !.pc = "done", !.client = FALSE,
                          !.trace = Emit(s, <<"rollback", "resp409">> \o Release)])
          ELSE InitFail(s, "rollback")
    /\ UNCHANGED <<probe, variant, store, ptx, verifiedRefs, served>>

\* UPDATE registrations SET full_name, amount_paid, status = 'pending' ...;
\* waits for the row lock; then COMMIT is issued
InitUpdate(s) ==
    /\ Running
    /\ rq[s].kind = "init" /\ rq[s].pc = "update"
    /\ \E ok \in BOOLEAN :
          IF ok
          THEN /\ ~LockedByOther(s, rq[s].inp.email)
               /\ Put(s, [rq[s] EXCEPT !.pc = "commit", !.txw = "update",
                                       !.trace = Emit(s, <<"update">>)])
          ELSE InitFail(s, "update")
    /\ UNCHANGED <<probe, variant, store, ptx, verifiedRefs, served>>

\* INSERT INTO registrations ... 'pending'; then COMMIT is issued
InitInsert(s) ==
    /\ Running
    /\ rq[s].kind = "init" /\ rq[s].pc = "insert"
    /\ \E ok \in BOOLEAN :
          IF ok
          THEN /\ ~LockedByOther(s, rq[s].inp.email)
               /\ IF UniqueViolation(rq[s].inp.email)
                  THEN InitFail(s, "insert")
                  ELSE Put(s, [rq[s] EXCEPT !.pc = "commit", !.txw = "insert",
                                            !.trace = Emit(s, <<"insert">>)])
          ELSE InitFail(s, "insert")
    /\ UNCHANGED <<probe, variant, store, ptx, verifiedRefs, served>>

\* a commit that persists nothing of the transaction's write
CommittedRowUnwritten(s) == store[rq[s].inp.email]

\* the row the transaction's write leaves when it commits
CommittedRow(s) ==
    IF rq[s].txw = "insert"
    THEN InsertedRow(rq[s].inp.fullName, rq[s].inp.amount)
    ELSE UpdatedRow(store[rq[s].inp.email], rq[s].inp.fullName, rq[s].inp.amount)

\* the body sent with the amount in Naira
InitializeBodyMajor(email, amount, fullName) ==
    [email |-> email, amount |-> amount,
     metadata |-> [full_name |-> fullName, email |-> email,
                   cohort |-> "Cohort 3", amount_naira |-> amount]]

\* the body of axios.post('.../transaction/initialize', {email,
\* amount: amount * 100, metadata: {full_name, email, cohort, amount_naira}})
InitializeBody(email, amount, fullName) ==
    [email |-> email, amount |-> ToKobo(amount),
     metadata |-> [full_name |-> fullName, email |-> email,
                   cohort |-> "Cohort 3", amount_naira |-> amount]]

\* await client.query('COMMIT'); finally release; then axios.post is issued
InitCommit(s) ==
    /\ Running
    /\ rq[s].kind = "init" /\ rq[s].pc = "commit"
    /\ \E ok \in BOOLEAN :
          IF ok
          THEN /\ store' = [store EXCEPT ![rq[s].inp.email] = CommittedRow(s)]
               /\ Put(s, [rq[s] EXCEPT !.pc = "provider", !.txw = "none",
                             !.client = FALSE,
                             !.call = InitializeBody(rq[s].inp.email,
                                         rq[s].inp.amount, rq[s].inp.fullName),
                             !.trace = Emit(s, <<"commit">> \o Release \o <<"initCall">>)])
          ELSE /\ InitFail(s, "commit")
               /\ UNCHANGED store
    /\ UNCHANGED <<probe, variant, ptx, verifiedRefs, served>>

\* catch (dbError): await client.query('ROLLBACK'); return res.status(500);
\* finally release. A ROLLBACK that fails throws out of the catch block: the
\* finally block still releases, and no response is sent
InitCatchRollback(s) ==
    /\ Running
    /\ rq[s].kind = "init" /\ rq[s].pc = "catchRollback"
    /\ \E ok \in BOOLEAN :
          IF ok
          THEN Put(s, [rq[s] EXCEPT !.pc = "done", !.txw = "none",
                          !.client = FALSE,
                          !.trace = Emit(s, <<"rollback", "resp500">> \o Release)])
          ELSE Put(s, [rq[s] EXCEPT !.pc = "done", !.txw = "none",
                          !.client = FALSE, !.out = "unhandled",
                          !.trace = Emit(s, <<"rollback", "error">> \o Release)])
    /\ UNCHANGED <<probe, variant, store, ptx, verifiedRefs, served>>

\* the transaction the provider opens for an initialize call: the email and
\* the amount (in Kobo) the call carries
ProviderTx(email, amount) ==
    [email |-> email, amount |-> amount, status |-> "abandoned"]

\* the provider failure logged without an answer
ProviderFailureSilent == <<"error">>

\* catch (error) of the provider call: console.error, then res.status(500)
ProviderFailure == <<"error", "resp500">>

\* await axios.post('.../transaction/initialize', {email, amount: amount * 100,
\* metadata}); res.status(200).json(...) or, on a failure, res.status(500)
InitProvider(s) ==
    /\ Running
    /\ rq[s].kind = "init" /\ rq[s].pc = "provider"
    /\ \E ok \in BOOLEAN :
          IF ok
          THEN /\ NextRef # 0
               /\ ptx' = [ptx EXCEPT ![NextRef] =
                              ProviderTx(rq[s].call.email, rq[s].call.amount)]
               /\ Put(s, [rq[s] EXCEPT !.pc = "done",
                                       !.trace = Emit(s, <<"resp200">>)])
          ELSE /\ Put(s, [rq[s] EXCEPT !.pc = "done",
                                       !.trace = Emit(s, ProviderFailure)])
               /\ UNCHANGED ptx
    /\ UNCHANGED <<probe, variant, store, verifiedRefs, served>>

\* the customer completes the payment of an open transaction at the provider
Pay(ref) ==
    /\ Running
    /\ ptx[ref].status = "abandoned"
    /\ ptx' = [ptx EXCEPT ![ref].status = "success"]
    /\ UNCHANGED <<probe, variant, store, rq, verifiedRefs, served>>

\* the handler has returned: its slot serves the next request
Finish(s) ==
    /\ rq[s].pc = "done"
    /\ Put(s, Idle)
    /\ UNCHANGED <<probe, variant, store, ptx, verifiedRefs, served>>

(* ------------------------ paystack-webhook handler --------------------- *)

\* event envelopes: {event, data: {reference, amount, customer: {email}, metadata}};
\* shape "nodata" has no data object, shape "nometa" no metadata object
ChargeEvents ==
    [event : {"charge.success"}, shape : {"ok"}, reference : Refs,
     amount : KoboAmounts, email : {"a@x.com"}]
    \cup [event : {"charge.success"}, shape : {"ok"}, reference : {1},
          amount : {ToKobo(1)}, email : {"b@x.com"}]

NoMetaEvent ==
    [event |-> "charge.success", shape |-> "nometa", reference |-> 1,
     amount |-> ToKobo(1), email |-> "a@x.com"]

MalformedEvent ==
    [event |-> "charge.success", shape |-> "nodata", reference |-> 0,
     amount |-> 0, email |-> ""]

OtherEvent ==
    [event |-> "charge.failed", shape |-> "ok", reference |-> 1,
     amount |-> ToKobo(1), email |-> "a@x.com"]

Events == ChargeEvents \cup {NoMetaEvent, MalformedEvent, OtherEvent}

\* a charge.success envelope the unsigned and mis-signed requests carry
SampleEvent ==
    [event |-> "charge.success", shape |-> "ok", reference |-> 1,
     amount |-> ToKobo(1), email |-> "a@x.com"]

\* how the sender made the x-paystack-signature header: none, the secret key
\* over the bytes sent, or another key over the bytes sent
SigKinds == {"missing", "raw", "wrongkey"}

Header(sigKind, raw) ==
    CASE sigKind = "missing" -> NoSig
      [] sigKind = "raw" -> Hmac(SecretKey, raw)
      [] OTHER -> Hmac("sk_other", raw)

\* the webhook requests sent: every envelope in the compact encoding signed
\* by the provider, and one envelope in each other encoding and signing
HookInputs ==
    [raw : [fmt : {"compact"}, ev : Events], sigKind : {"raw"}]
    \cup [raw : [fmt : Formats, ev : {SampleEvent}], sigKind : SigKinds]

\* the initialize requests sent: every valid body, and bodies with one field
\* missing or out of range
InitInputs ==
    [email : {"a@x.com"}, amount : Amounts, fullName : Names]
    \cup [email : {"b@x.com"}, amount : {1}, fullName : {"A"}]
    \cup [email : {""}, amount : {1}, fullName : {"A"}]
    \cup [email : {"a@x.com"}, amount : {-1, 0}, fullName : {"A"}]
    \cup [email : {"a@x.com"}, amount : {1}, fullName : {""}]

\* every event type taken for a successful charge
IsChargeSuccessAlways(event) == TRUE

\* if (event.event === 'charge.success')
IsChargeSuccess(event) == event.event = "charge.success"

\* the Express handler's inline verification (processWebhookEvent): "throw"
\* when axios.get rejects or verificationResponse.data.data is undefined
ExpressVerify(transactionRef, paidAmountKobo, reply) ==
    IF reply.kind # "ok" THEN "throw"
    ELSE IF /\ reply.status = "success"
            /\ reply.amount = paidAmountKobo
            /\ reply.reference = transactionRef
         THEN "true"
         ELSE "false"

VerifyResult(transactionRef, paidAmountKobo, reply) ==
    IF variant = "serverless"
    THEN verifyPaystackTransaction(transactionRef, paidAmountKobo, reply)
    ELSE ExpressVerify(transactionRef, paidAmountKobo, reply)

\* the payload trusted whatever the verification returned
IsVerifiedAlways(result) == TRUE

\* if (isVerified) { ... UPDATE registrations ... }
IsVerified(result) == result = "true"

\* the acknowledgment sent before the event is looked at
AcknowledgedLate(rest) == <<"sigOk">> \o rest \o <<"resp200">>

\* res.status(200).send('Webhook Received') right after the signature check,
\* before the event is processed
Acknowledged(rest) == <<"sigOk", "resp200">> \o rest

\* a failure of the reconciliation that is logged nowhere
HookErrorSwallowed == <<>>

\* console.error(...) in the catch blocks of the reconciliation: the failure is
\* logged and nothing is sent
HookError == <<"error">>

\* request received: signature check, then 400, or 200 followed by the
\* synchronous start of event processing up to the verify GET
HookReceive(s, raw, sigKind) ==
    /\ FreeSlot(s)
    /\ served < MaxRequests
    /\ served' = served + 1
    /\ LET req == [raw |-> raw, sig |-> Header(sigKind, raw)]
           event == ReqBody(req)
           r == [Idle EXCEPT !.kind = "hook", !.inp = req]
       IN  IF ~SignatureOk(req)
           THEN Put(s, [r EXCEPT !.pc = "done",
                                 !.trace = <<"sigFail", "resp400">>])
           ELSE IF ~IsChargeSuccess(event)
           THEN Put(s, [r EXCEPT !.pc = "done", !.out = "ignored",
                                 !.trace = Acknowledged(<<>>)])
           ELSE IF event.shape = "nodata"
           THEN Put(s, [r EXCEPT !.pc = "done", !.out = "failure_logged",
                                 !.trace = Acknowledged(HookError)])
           ELSE Put(s, [r EXCEPT !.pc = "verify",
                                 !.trace = Acknowledged(<<"verifyCall">>)])
    /\ UNCHANGED <<probe, variant, store, ptx, verifiedRefs>>

\* the verify GET returns; on a verified transaction pool.connect() is issued
HookVerify(s) ==
    /\ Running
    /\ rq[s].kind = "hook" /\ rq[s].pc = "verify"
    /\ LET event == ReqBody(rq[s].inp) IN
       \E reply \in VerifyReplies(event.reference) :
          LET result == VerifyResult(event.reference,
                                     event.amount, reply)
          IN  /\ verifiedRefs' = IF result = "true"
                                 THEN verifiedRefs \cup {event.reference}
                                 ELSE verifiedRefs
              /\ IF result = "throw"
                 THEN Put(s, [rq[s] EXCEPT !.pc = "done", !.ver = result,
                                 !.out = "failure_logged",
                                 !.trace = Emit(s, HookError)])
                 ELSE IF IsVerified(result)
                 THEN Put(s, [rq[s] EXCEPT !.pc = "connect", !.ver = result])
                 ELSE Put(s, [rq[s] EXCEPT !.pc = "done", !.ver = result,
                                 !.out = "verification_failed"])
    /\ UNCHANGED <<probe, variant, store, ptx, served>>

\* client = await pool.connect(); then the UPDATE is issued
HookConnect(s) ==
    /\ Running
    /\ rq[s].kind = "hook" /\ rq[s].pc = "connect"
    /\ \E ok \in BOOLEAN :
          IF ok
          THEN Put(s, [rq[s] EXCEPT !.pc = "markPaid", !.client = TRUE,
                                    !.trace = Emit(s, <<"connect">>)])
          ELSE Put(s, [rq[s] EXCEPT !.pc = "done", !.out = "failure_logged",
                                    !.trace = Emit(s, <<"connect">> \o HookError)])
    /\ UNCHANGED <<probe, variant, store, ptx, verifiedRefs, served>>

\* UPDATE registrations SET payment_ref, status = 'paid' WHERE email = $3
\* (autocommit; waits for the row lock), then the log line that reads
\* metadata.full_name, then finally release
HookMarkPaid(s) ==
    /\ Running
    /\ rq[s].kind = "hook" /\ rq[s].pc = "markPaid"
    /\ LET event == ReqBody(rq[s].inp)
           row == store[event.email]
           r == [rq[s] EXCEPT !.pc = "done", !.client = FALSE,
                    !.dup = (row.status = "paid" /\ row.payment_ref = event.reference)]
       IN
       \E ok \in BOOLEAN :
          IF ok
          THEN /\ ~RowLockedByOther(s, event.email)
               /\ store' = [store EXCEPT ![event.email] =
                               MarkPaidRow(row, event.reference)]
               /\ IF event.shape = "nometa"
                  THEN Put(s, [r EXCEPT !.out = "failure_logged",
                                  !.trace = Emit(s, <<"markPaid", "logPaid">>
                                                    \o HookError \o Release)])
                  ELSE Put(s, [r EXCEPT !.out = "paid",
                                  !.trace = Emit(s, <<"markPaid", "logPaid">> \o Release)])
          ELSE /\ Put(s, [r EXCEPT !.out = "failure_logged",
                             !.trace = Emit(s, <<"markPaid">> \o HookError
                                               \o Release)])
               /\ UNCHANGED store
    /\ UNCHANGED <<probe, variant, ptx, verifiedRefs, served>>

(* ---------------------------- specification ---------------------------- *)

\* no call of verifyPaystackTransaction under test
NoProbe == [ref |-> 0, amount |-> 0, reply |-> NetErrReply, result |-> "", inline |-> ""]

Init ==
    /\ variant \in Variants
    /\ store = [e \in Emails |-> NoRow]
    /\ ptx = [r \in Refs |-> NoTx]
    /\ rq = [s \in Slots |-> Idle]
    /\ verifiedRefs = {}
    /\ served = 0
    /\ probe = NoProbe

Next ==
    \/ \E s \in Slots, i \in InitInputs :
          InitReceive(s, i.email, i.amount, i.fullName)
    \/ \E s \in Slots : InitConnect(s)
    \/ \E s \in Slots : InitBegin(s)
    \/ \E s \in Slots : InitSelect(s)
    \/ \E s \in Slots : InitRollbackPaid(s)
    \/ \E s \in Slots : InitUpdate(s)
    \/ \E s \in Slots : InitInsert(s)
    \/ \E s \in Slots : InitCommit(s)
    \/ \E s \in Slots : InitCatchRollback(s)
    \/ \E s \in Slots : InitProvider(s)
    \/ \E ref \in Refs : Pay(ref)
    \/ \E s \in Slots, h \in HookInputs : HookReceive(s, h.raw, h.sigKind)
    \/ \E s \in Slots : HookVerify(s)
    \/ \E s \in Slots : HookConnect(s)
    \/ \E s \in Slots : HookMarkPaid(s)
    \/ \E s \in Slots : Finish(s)

Spec == Init /\ [][Next]_vars

(* ------------- verifyPaystackTransaction on arbitrary replies ---------- *)

\* the replies a provider could send to a verify GET
ProbeReplies ==
    {NetErrReply, NoDataReply}
    \cup [kind : {"ok"}, status : {"success", "abandoned", "failed"},
          amount : KoboAmounts, reference : Refs]

InitVerify ==
    /\ variant = "serverless"
    /\ store = [e \in Emails |-> NoRow]
    /\ ptx = [r \in Refs |-> NoTx]
    /\ rq = [s \in Slots |-> Idle]
    /\ verifiedRefs = {}
    /\ served = 0
    /\ probe \in [ref : Refs, amount : KoboAmounts, reply : ProbeReplies,
                   result : {""}, inline : {""}]

\* const isVerified = await verifyPaystackTransaction(transactionRef, paidAmountKobo, key)
CallVerify ==
    /\ probe.result = ""
    /\ probe' = [probe EXCEPT !.result =
                    verifyPaystackTransaction(probe.ref, probe.amount, probe.reply)]
    /\ UNCHANGED <<variant, store, ptx, rq, verifiedRefs, served>>

\* the same call made by the Express handler's inline verification
CallInline ==
    /\ probe.inline = ""
    /\ probe' = [probe EXCEPT !.inline =
                    ExpressVerify(probe.ref, probe.amount, probe.reply)]
    /\ UNCHANGED <<variant, store, ptx, rq, verifiedRefs, served>>

NextVerify == CallVerify \/ CallInline

SpecVerify == InitVerify /\ [][NextVerify]_vars

(* ------------------------------- claims -------------------------------- *)

\* C1: a registration row is paid only if a verify call for the row's
\* payment_ref returned true before
C1_PaidOnlyAfterVerification ==
    \A e \in Emails :
        store[e].status = "paid" => store[e].payment_ref \in verifiedRefs

\* a row is paid, while a verify call of another request has returned false
C1_Witness ==
    /\ \E e \in Emails : store[e].status = "paid"
    /\ \E s \in Slots : rq[s].kind = "hook" /\ rq[s].ver = "false"

\* an initialize request that has read its email's row as paid
SawPaid(s) == rq[s].kind = "init" /\ rq[s].seen = "paid"

\* C2 as stated: an initialize request that read its row as paid is answered
\* 409, changes nothing in the store and makes no provider initialize call
C2_Original ==
    [][\A s \in Slots :
          (SawPaid(s) /\ rq'[s] # rq[s]) =>
             /\ store' = store
             /\ ptx' = ptx
             /\ rq'[s].pc = "done" =>
                   /\ HasIn(rq'[s].trace, "resp409")
                   /\ ~HasIn(rq'[s].trace, "initCall")]_vars

\* C2 as amended: an initialize request that read its row as paid changes
\* nothing in the store and makes no provider initialize call; it is answered
\* 409 when the ROLLBACK it issues succeeds, and when that ROLLBACK fails it
\* is answered 500, or not at all when the error handler's ROLLBACK fails too
C2_Amended ==
    [][\A s \in Slots :
          (SawPaid(s) /\ rq'[s] # rq[s]) =>
             /\ store' = store
             /\ ptx' = ptx
             /\ rq'[s].pc = "done" =>
                   LET t == rq'[s].trace IN
                   /\ ~HasIn(t, "initCall")
                   /\ ~HasIn(t, "resp200")
                   /\ HasIn(t, "resp409") <=> ~HasIn(t, "error")
                   /\ HasIn(t, "resp409") => ~HasIn(t, "resp500")
                   /\ HasIn(t, "resp500") =>
                         t = <<"connect", "begin", "select", "rollback", "error",
                               "rollback", "resp500", "release">>]_vars

\* an initialize request that read its row as paid has been answered 409
C2_Witness ==
    \E s \in Slots : SawPaid(s) /\ rq[s].pc = "done" /\ Has(s, "resp409")

\* C3 as stated: once a row is paid it stays paid, and its full_name and
\* amount_paid are never overwritten, under any interleaving of initialize
\* requests and webhook reconciliations
C3_PaidIsImmutable ==
    [][\A e \in Emails :
          store[e].status = "paid" =>
             /\ store'[e].status = "paid"
             /\ store'[e].full_name = store[e].full_name
             /\ store'[e].amount_paid = store[e].amount_paid]_vars

\* C4 as stated: whenever a row becomes paid, its amount_paid times 100 is the
\* amount the provider holds for the reference being recorded
C4_PaidAmountMatches ==
    [][\A e \in Emails :
          (store[e].status # "paid" /\ store'[e].status = "paid") =>
             ToKobo(store'[e].amount_paid) = ptx[store'[e].payment_ref].amount]_vars

\* the signature header is missing or is not the HMAC-SHA512, under the
\* secret key, of the bytes sent or of the body as the handler hashes it
BadSignature(req) ==
    \/ req.sig = NoSig
    \/ req.sig # Hmac(SecretKey, req.raw)
    \/ req.sig # Hmac(SecretKey, JSONstringify(ReqBody(req)))

First(trace, event) ==
    IF HasIn(trace, event)
    THEN CHOOSE i \in 1..Len(trace) :
             trace[i] = event /\ \A j \in 1..(i - 1) : trace[j] # event
    ELSE 0

\* C6: in every webhook request the 200 acknowledgment comes after the
\* signature verification and strictly before the provider verify call and
\* before any store access of the request
C6_AckBeforeProcessing ==
    \A s \in Slots :
        rq[s].kind = "hook" =>
            LET t == rq[s].trace IN
            /\ HasIn(t, "sigOk") => HasIn(t, "resp200")
            /\ HasIn(t, "resp200") =>
                  /\ HasIn(t, "sigOk")
                  /\ First(t, "sigOk") < First(t, "resp200")
            /\ \A i \in 1..Len(t) :
                  t[i] \in StoreEvents \cup {"verifyCall"} =>
                      /\ HasIn(t, "resp200")
                      /\ First(t, "resp200") < i

\* an acknowledged webhook has made its verify call and its store update
C6_Witness ==
    \E s \in Slots :
        /\ rq[s].kind = "hook"
        /\ Has(s, "resp200") /\ Has(s, "verifyCall") /\ Has(s, "markPaid")

\* C7 as stated: every webhook whose header is the HMAC-SHA512 of the bytes
\* sent receives exactly one response, status 200, whatever happens afterwards
C7_SignedAnsweredOnce200 ==
    \A s \in Slots :
        (rq[s].kind = "hook" /\ rq[s].inp.sig = Hmac(SecretKey, rq[s].inp.raw)) =>
            /\ Count(s, Responses) = 1
            /\ Has(s, "resp200")

\* C8: a paid-marking step changes no row but the event's email's, adds no
\* row, and leaves an existing row paid with the event's reference; on a row
\* that is already paid with that reference it changes nothing and the
\* delivery ends as paid, not in an error
C8_RedeliveryIdempotent ==
    [][\A s \in Slots :
          (rq[s].kind = "hook" /\ rq[s].pc = "markPaid" /\ rq'[s].pc = "done") =>
             LET event == ReqBody(rq[s].inp)
                 row == store[event.email]
                 applied == HasIn(rq'[s].trace, "logPaid")
             IN  /\ \A e \in Emails \ {event.email} : store'[e] = store[e]
                 /\ row = NoRow => store'[event.email] = NoRow
                 /\ (applied /\ row # NoRow) =>
                        store'[event.email] =
                           [row EXCEPT !.status = "paid",
                                       !.payment_ref = event.reference]
                 /\ ~applied => store' = store
                 /\ rq'[s].dup => store' = store
                 /\ (rq'[s].dup /\ applied /\ event.shape = "ok") =>
                        rq'[s].out = "paid"]_vars

\* a delivery has found its row already paid with its reference and has ended
\* as paid
C8_Witness ==
    \E s \in Slots :
        /\ rq[s].kind = "hook" /\ rq[s].pc = "done"
        /\ rq[s].dup /\ rq[s].out = "paid"

\* C9 as stated: a webhook request passes signature verification if and only
\* if its header is the HMAC-SHA512, under the secret key, of the bytes sent
C9_AcceptedIffSignedRaw ==
    \A s \in Slots :
        rq[s].kind = "hook" =>
            (Has(s, "sigOk") <=> rq[s].inp.sig = Hmac(SecretKey, rq[s].inp.raw))

\* the three values agree with what the verify call expects
Agrees(p) ==
    /\ p.reply.kind = "ok"
    /\ p.reply.status = "success"
    /\ p.reply.reference = p.ref
    /\ p.reply.amount = p.amount

\* C10: verifyPaystackTransaction returns true exactly when the reply has
\* status success, the requested reference and the expected amount; for every
\* other reply, a reply without data or a network failure it returns false
\* and does not throw (the Express handler's inline check likewise accepts
\* exactly those replies)
C10_VerifyExact ==
    /\ probe.result # "" =>
          /\ probe.result \in {"true", "false"}
          /\ probe.result = "true" <=> Agrees(probe)
    /\ probe.inline # "" => (probe.inline = "true" <=> Agrees(probe))

\* the call has returned false for a successful charge of the expected amount
\* under another reference
C10_Witness ==
    /\ probe.result = "false"
    /\ probe.reply.kind = "ok"
    /\ probe.reply.status = "success"
    /\ probe.reply.amount = probe.amount
    /\ probe.reply.reference # probe.ref

\* an initialize request that read its email as unregistered and is in the
\* insert branch (its INSERT issued, or applied and waiting for COMMIT)
InInsertBranch(s) ==
    rq[s].kind = "init" /\ rq[s].seen = "absent" /\ rq[s].pc \in {"insert", "commit"}

\* C11 as stated: of two concurrent initialize requests for the same
\* unregistered email at most one is in the insert branch (the other has seen
\* the row and updates it)
C11_OneInsertBranch ==
    \A s, t \in Slots :
        (s # t /\ InInsertBranch(s) /\ InInsertBranch(t)) =>
            rq[s].inp.email # rq[t].inp.email

\* C12: a webhook request changes the store only when its event type is
\* charge.success and its verify call returned true; a request with any other
\* event type makes no verify call and no store access, and a request whose
\* verification did not return true makes no store access
C12_StoreChangeOnlyVerifiedCharge ==
    [][\A s \in Slots :
          (rq'[s].kind = "hook" /\ rq'[s] # rq[s]) =>
             LET event == ReqBody(rq'[s].inp)
                 t == rq'[s].trace
                 touched == \E i \in 1..Len(t) : t[i] \in StoreEvents
             IN  /\ store' # store =>
                       (event.event = "charge.success" /\ rq[s].ver = "true")
                 /\ event.event # "charge.success" =>
                       (~HasIn(t, "verifyCall") /\ ~touched)
                 /\ rq'[s].ver # "true" => ~touched]_vars

\* a verification has returned false for an event whose email has a pending
\* row, while an initialize request is in flight
C12_Witness ==
    /\ \E s \in Slots :
          /\ rq[s].kind = "hook" /\ rq[s].pc = "done" /\ rq[s].ver = "false"
          /\ store[ReqBody(rq[s].inp).email].status = "pending"
    /\ \E s \in Slots :
          /\ rq[s].kind = "init" /\ rq[s].pc # "done"

\* C13: a paid-marking UPDATE for an email that has no registration row
\* changes nothing in the store (no row is inserted, no other row changes)
\* and the reconciliation ends as after any applied UPDATE, without an error
C13_MarkPaidAbsentNoOp ==
    [][\A s \in Slots :
          (/\ rq[s].kind = "hook" /\ rq[s].pc = "markPaid"
           /\ rq'[s].pc = "done"
           /\ store[ReqBody(rq[s].inp).email] = NoRow) =>
             LET event == ReqBody(rq[s].inp)
                 t == rq'[s].trace
             IN  /\ store' = store
                 /\ \A e \in Emails : store'[e] = NoRow <=> store[e] = NoRow
                 /\ (HasIn(t, "logPaid") /\ event.shape = "ok") =>
                       (rq'[s].out = "paid" /\ ~HasIn(t, "error"))]_vars

\* a reconciliation has applied its UPDATE for an email without a row and has
\* ended without an error
C13_Witness ==
    \E s \in Slots :
        /\ rq[s].kind = "hook" /\ rq[s].pc = "done"
        /\ Has(s, "logPaid") /\ ~Has(s, "error")
        /\ store[ReqBody(rq[s].inp).email] = NoRow

\* C14: an initialize request whose email or full name is empty or missing, or
\* whose amount is missing or not greater than 0, is answered 400 with no
\* store access and no provider call
C14_InvalidInputRejected ==
    \A s \in Slots :
        (/\ rq[s].kind = "init"
         /\ \/ rq[s].inp.email = ""
            \/ rq[s].inp.fullName = ""
            \/ rq[s].inp.amount <= 0) =>
            /\ rq[s].pc = "done"
            /\ rq[s].trace = <<"resp400">>
            /\ ~rq[s].client
            /\ rq[s].txw = "none"

\* a request with a negative amount has been answered 400
C14_Witness ==
    \E s \in Slots :
        /\ rq[s].kind = "init" /\ rq[s].pc = "done"
        /\ rq[s].inp.amount < 0
        /\ rq[s].inp.email # "" /\ rq[s].inp.fullName # ""
        /\ Has(s, "resp400")

\* C15: when the store transaction of an initialize request commits, the
\* email has one row with status pending and the submitted full_name and
\* amount_paid; a request that found a pending row overwrites these fields in
\* place (cohort and payment_ref kept), a request that found none creates the
\* row; no other email's row changes
C15_CommitLeavesPendingRow ==
    [][\A s \in Slots :
          (/\ rq[s].kind = "init" /\ rq[s].pc = "commit"
           /\ rq'[s].pc = "provider") =>
             LET e == rq[s].inp.email IN
             /\ store'[e].status = "pending"
             /\ store'[e].full_name = rq[s].inp.fullName
             /\ store'[e].amount_paid = rq[s].inp.amount
             /\ rq[s].seen = "pending" =>
                   /\ store[e] # NoRow
                   /\ store'[e].cohort = store[e].cohort
                   /\ store'[e].payment_ref = store[e].payment_ref
             /\ rq[s].seen = "absent" =>
                   /\ store[e] = NoRow
                   /\ store'[e].cohort = "Cohort 3"
                   /\ store'[e].payment_ref = NullRef
             /\ \A o \in Emails \ {e} : store'[o] = store[o]]_vars

\* a re-submission for a pending email has committed another amount than the
\* row held before
C15_Witness ==
    \E s \in Slots :
        /\ rq[s].kind = "init" /\ rq[s].pc = "provider"
        /\ rq[s].seen = "pending"
        /\ store[rq[s].inp.email].status = "pending"
        /\ store[rq[s].inp.email].amount_paid = 2
        /\ store[rq[s].inp.email].full_name = "B"
        /\ \E r \in Refs : ptx[r].email = rq[s].inp.email /\ ptx[r].amount = ToKobo(1)

\* C16: the provider initialize call a request issues carries the submitted
\* amount multiplied by 100, and metadata whose amount_naira is the submitted
\* amount and whose email, full_name and cohort are those of the row the
\* request's transaction has just committed; the transaction the provider
\* opens is for the call's email and amount
C16_InitializeCallPayload ==
    [][\A s \in Slots :
          /\ (/\ rq[s].kind = "init" /\ rq[s].pc = "commit"
              /\ rq'[s].pc = "provider") =>
                LET e == rq[s].inp.email
                    c == rq'[s].call
                IN  /\ c.email = e
                    /\ c.amount = rq[s].inp.amount * 100
                    /\ c.metadata.amount_naira = rq[s].inp.amount
                    /\ c.metadata.amount_naira = store'[e].amount_paid
                    /\ c.metadata.email = e
                    /\ c.metadata.full_name = store'[e].full_name
                    /\ c.metadata.cohort = store'[e].cohort
          /\ (rq'[s].kind = "init" /\ ~HasIn(rq'[s].trace, "initCall")) =>
                rq'[s].call = NoCall
          /\ (/\ rq[s].kind = "init" /\ rq[s].pc = "provider"
              /\ rq'[s] # rq[s] /\ ptx' # ptx) =>
                \E r \in Refs :
                    /\ ptx[r] = NoTx
                    /\ ptx'[r].email = rq[s].call.email
                    /\ ptx'[r].amount = rq[s].call.amount
                    /\ ptx'[r].amount = rq[s].inp.amount * 100]_vars

\* the provider has opened a transaction of 200 Kobo for a request that
\* submitted 2 Naira on its second submission of the email
C16_Witness ==
    \E s \in Slots :
        /\ rq[s].kind = "init" /\ rq[s].pc = "done" /\ Has(s, "resp200")
        /\ rq[s].seen = "pending"
        /\ rq[s].inp.amount = 2
        /\ \E r \in Refs : ptx[r].amount = 200 /\ ptx[r].email = rq[s].inp.email

TransactionSteps == {"connect", "begin", "select", "update", "insert", "commit"}

\* a statement of the initialize transaction has failed in this trace
StoreStepFailed(trace) ==
    \E i \in 1..(Len(trace) - 1) :
        trace[i] \in TransactionSteps /\ trace[i + 1] = "error"

\* C18 as stated: when a store operation of an initialize request's
\* transaction fails (connect, BEGIN, SELECT, INSERT/UPDATE or COMMIT), no
\* step of the request from the failure on changes the store, no provider call
\* is made, and the request ends answered 500
C18_StoreFailureAnswered500 ==
    [][\A s \in Slots :
          (/\ rq'[s].kind = "init" /\ rq'[s] # rq[s]
           /\ StoreStepFailed(rq'[s].trace)) =>
             /\ store' = store
             /\ ptx' = ptx
             /\ ~HasIn(rq'[s].trace, "initCall")
             /\ rq'[s].pc = "done" => HasIn(rq'[s].trace, "resp500")]_vars

\* C19: a request issues its provider initialize call only after its store
\* transaction has committed, so every transaction the provider holds, and so
\* every reference that can be verified, is for an email that has a
\* registration row
C19_RowBeforeReference ==
    /\ \A s \in Slots :
          (rq[s].kind = "init" /\ Has(s, "initCall")) =>
              /\ Has(s, "commit")
              /\ First(rq[s].trace, "commit") < First(rq[s].trace, "initCall")
              /\ store[rq[s].inp.email] # NoRow
    /\ \A r \in Refs :
          ptx[r] # NoTx => store[ptx[r].email] # NoRow
    /\ \A r \in verifiedRefs : store[ptx[r].email] # NoRow

\* a reference issued by the provider has been paid and verified, and the row
\* of its email was committed before the reference existed
C19_Witness ==
    \E r \in verifiedRefs :
        /\ ptx[r].status = "success"
        /\ store[ptx[r].email].status \in {"pending", "paid"}

\* C20 as stated: a registration row has a payment_ref if and only if its
\* status is paid; a pending row never carries a payment reference
C20_RefIffPaid ==
    \A e \in Emails :
        store[e] # NoRow =>
            (store[e].payment_ref # NullRef <=> store[e].status = "paid")

\* the request's pool.connect() has returned a client
Acquired(trace) ==
    \E i \in 1..Len(trace) :
        trace[i] = "connect" /\ (i = Len(trace) \/ trace[i + 1] # "error")

\* C21: a request releases the store connection it acquired exactly once on
\* every exit path and releases none it did not acquire, so a finished request
\* holds no connection; an initialize request releases its connection before
\* its provider call
C21_ConnectionReleasedOnce ==
    \A s \in Slots :
        rq[s].kind \in {"init", "hook"} =>
            LET t == rq[s].trace IN
            /\ Count(s, {"release"}) <= 1
            /\ Has(s, "release") => Acquired(t)
            /\ rq[s].client <=> (Acquired(t) /\ ~Has(s, "release"))
            /\ rq[s].pc = "done" =>
                  /\ ~rq[s].client
                  /\ Acquired(t) <=> Has(s, "release")
            /\ Has(s, "initCall") =>
                  /\ Has(s, "release")
                  /\ First(t, "release") < First(t, "initCall")

\* an initialize request whose ROLLBACK failed inside the store-error handler
\* has ended with its connection released
C21_Witness ==
    \E s \in Slots :
        /\ rq[s].kind = "init" /\ rq[s].pc = "done"
        /\ rq[s].out = "unhandled"
        /\ Has(s, "release") /\ ~rq[s].client

(* ------------------------- progress of the handlers -------------------- *)

\* the requests sent while progress is checked: one initialize body, and one
\* webhook of each kind (a charge for each email, a charge without metadata,
\* one without data, another event type, an unsigned request)
LiveInitInputs == {[email |-> "a@x.com", amount |-> 1, fullName |-> "A"]}

LiveHookInputs ==
    [raw : [fmt : {"compact"},
            ev : {SampleEvent, NoMetaEvent, MalformedEvent, OtherEvent,
                  [SampleEvent EXCEPT !.email = "b@x.com"]}],
     sigKind : {"raw"}]
    \cup {[raw |-> [fmt |-> "compact", ev |-> SampleEvent], sigKind |-> "missing"]}

NextLive ==
    \/ \E s \in Slots, i \in LiveInitInputs :
          InitReceive(s, i.email, i.amount, i.fullName)
    \/ \E s \in Slots : InitConnect(s)
    \/ \E s \in Slots : InitBegin(s)
    \/ \E s \in Slots : InitSelect(s)
    \/ \E s \in Slots : InitRollbackPaid(s)
    \/ \E s \in Slots : InitUpdate(s)
    \/ \E s \in Slots : InitInsert(s)
    \/ \E s \in Slots : InitCommit(s)
    \/ \E s \in Slots : InitCatchRollback(s)
    \/ \E s \in Slots : InitProvider(s)
    \/ \E ref \in Refs : Pay(ref)
    \/ \E s \in Slots, h \in LiveHookInputs : HookReceive(s, h.raw, h.sigKind)
    \/ \E s \in Slots : HookVerify(s)
    \/ \E s \in Slots : HookConnect(s)
    \/ \E s \in Slots : HookMarkPaid(s)
    \/ \E s \in Slots : Finish(s)

\* every call a handler awaits returns or fails, and a handler that can run
\* does run: some enabled step is always eventually taken
SpecLive == Init /\ [][NextLive]_vars /\ WF_vars(NextLive)

\* the ways a reconciliation ends: the event ignored, the verification failed,
\* the row marked paid, or the failure logged
Outcomes == {"ignored", "verification_failed", "paid", "failure_logged"}

\* the reconciliation of the request in slot s has ended in one outcome, and
\* what it did is what that outcome says
Reconciled(s) ==
    /\ rq[s].pc = "done"
    /\ rq[s].out \in Outcomes
    /\ Count(s, Responses) = 1
    /\ rq[s].out = "ignored" =>
          (~Has(s, "verifyCall") /\ ~Has(s, "error") /\ ~Has(s, "markPaid"))
    /\ rq[s].out = "verification_failed" =>
          (Has(s, "verifyCall") /\ ~Has(s, "error") /\ ~Has(s, "connect"))
    /\ rq[s].out = "paid" =>
          (Has(s, "logPaid") /\ ~Has(s, "error"))
    /\ rq[s].out = "failure_logged" => Has(s, "error")

\* C22: an acknowledged webhook's reconciliation eventually ends, in exactly
\* one of: event ignored, verification failed, row marked paid, failure
\* logged; every failure after the acknowledgment is caught and logged
C22_ReconciliationTerminates ==
    \A s \in Slots :
        (rq[s].kind = "hook" /\ Has(s, "resp200")) ~> Reconciled(s)

\* a reconciliation that waited for its verify call and its store update has
\* ended with the failure of the update logged
C22_Witness ==
    \E s \in Slots :
        /\ rq[s].kind = "hook" /\ rq[s].pc = "done"
        /\ rq[s].out = "failure_logged"
        /\ Has(s, "verifyCall") /\ Has(s, "markPaid") /\ ~Has(s, "logPaid")

\* C23 as stated: an initialize request with valid input that has ended has
\* sent exactly one response, 200, 409 or 500, whichever store operation
\* failed, a ROLLBACK on the 409 path or in the store-error handler included
C23_ValidAnsweredOnce ==
    \A s \in Slots :
        (/\ rq[s].kind = "init" /\ rq[s].pc = "done"
         /\ rq[s].inp.email # "" /\ rq[s].inp.fullName # ""
         /\ rq[s].inp.amount > 0) =>
            /\ Count(s, Responses) = 1
            /\ Count(s, {"resp200", "resp409", "resp500"}) = 1

(* --------------- the two webhook variants on the same request ---------- *)

\* what one webhook request does, given the row of the event's email, the
\* reply to the verify GET and whether pool.connect() and the UPDATE succeed:
\* the response status, the references of the verify calls made, and the row
\* afterwards
Handled(status, calls, row) == [status |-> status, calls |-> calls, row |-> row]

\* api/paystack-webhook.js with utils/paystack.js
ServerlessWebhook(req, row, reply, connectOk, updateOk) ==
    LET event == ReqBody(req) IN
    IF ~verifyPaystackWebhookSignature(req, SecretKey)
    THEN Handled(400, <<>>, row)
    ELSE IF ~IsChargeSuccess(event) \/ event.shape = "nodata"
    THEN Handled(200, <<>>, row)
    ELSE LET isVerified == verifyPaystackTransaction(event.reference,
                                                     event.amount, reply)
         IN  Handled(200, <<event.reference>>,
                     IF IsVerified(isVerified) /\ connectOk /\ updateOk
                     THEN MarkPaidRow(row, event.reference)
                     ELSE row)

\* the Express route with processWebhookEvent
ExpressWebhook(req, row, reply, connectOk, updateOk) ==
    LET event == ReqBody(req) IN
    IF ~ExpressSignatureOk(req, SecretKey)
    THEN Handled(400, <<>>, row)
    ELSE IF ~IsChargeSuccess(event) \/ event.shape = "nodata"
    THEN Handled(200, <<>>, row)
    ELSE LET result == ExpressVerify(event.reference, event.amount, reply)
         IN  Handled(200, <<event.reference>>,
                     IF IsVerified(result) /\ connectOk /\ updateOk
                     THEN MarkPaidRow(row, event.reference)
                     ELSE row)

\* the variant has not handled the request
NoRun == Handled(0, <<>>, NoRow)

\* the webhook requests, and the rows the event's email can have
EquivRequests == {[raw |-> h.raw, sig |-> Header(h.sigKind, h.raw)] : h \in HookInputs}

EquivRows == {NoRow, InsertedRow("A", 1), MarkPaidRow(InsertedRow("A", 1), 1)}

InitEquiv ==
    /\ variant = "serverless"
    /\ store = [e \in Emails |-> NoRow]
    /\ ptx = [r \in Refs |-> NoTx]
    /\ rq = [s \in Slots |-> Idle]
    /\ verifiedRefs = {}
    /\ served = 0
    /\ probe \in [req : EquivRequests, row : EquivRows, reply : ProbeReplies,
                   connectOk : BOOLEAN, updateOk : BOOLEAN,
                   serverless : {NoRun}, express : {NoRun}]

\* the request handled by the serverless variant
RunServerless ==
    /\ probe.serverless = NoRun
    /\ probe' = [probe EXCEPT !.serverless =
                    ServerlessWebhook(probe.req, probe.row, probe.reply,
                                      probe.connectOk, probe.updateOk)]
    /\ UNCHANGED <<variant, store, ptx, rq, verifiedRefs, served>>

\* the same request handled by the Express variant
RunExpress ==
    /\ probe.express = NoRun
    /\ probe' = [probe EXCEPT !.express =
                    ExpressWebhook(probe.req, probe.row, probe.reply,
                                   probe.connectOk, probe.updateOk)]
    /\ UNCHANGED <<variant, store, ptx, rq, verifiedRefs, served>>

NextEquiv == RunServerless \/ RunExpress

SpecEquiv == InitEquiv /\ [][NextEquiv]_vars

\* C24: on the same webhook request, with the same row, the same reply to the
\* verify GET and the same store behaviour, the Express variant and the
\* serverless variant send the same response status, make the same verify
\* calls and leave the same row
C24_VariantsAgree ==
    (probe.serverless # NoRun /\ probe.express # NoRun) =>
        /\ probe.serverless.status = probe.express.status
        /\ probe.serverless.calls = probe.express.calls
        /\ probe.serverless.row = probe.express.row

\* both variants have answered 200 to a request whose verify GET failed, and
\* both have left the pending row as it was
C24_Witness ==
    /\ probe.serverless # NoRun /\ probe.express # NoRun
    /\ probe.serverless.status = 200
    /\ probe.reply.kind # "ok"
    /\ probe.express.calls # <<>>
    /\ probe.row.status = "pending"
    /\ probe.express.row = probe.row

====
